---- MODULE Spec2Model ----
(***************************************************************************)
(* A model of the poker arena and bot core:                                *)
(*   arena/betting.py   BlindManager and BettingRound                      *)
(*   pokeher/cards.py   Card, HandBuilder (hand scoring)                   *)
(*   pokeher/brain.py   Brain (per-turn decision)                          *)
(* Each component has its own specification; the variables of the other    *)
(* components stay at their initial values.                                *)
(***************************************************************************)
EXTENDS Integers, Sequences, FiniteSets, TLC

\* ------------------------------------------------------------------ bounds

\* number of bots seated in a betting round
NumPlayers == 4
\* a single post is at most MaxRaise small blinds
MaxRaise == 2
\* posts are explored while the pot holds at most MaxPot small blinds
MaxPot == 10
\* betting rounds built one after the other without a forced-bet mapping
MaxRounds == 2
\* number of bots the blind manager starts with
NumBots == 5
\* BlindManager(hands_per_level, bots): the hands played at one blind level
HandsPerLevel == 3
\* the deck holds the DeckRanks highest ranks (see Deck)
DeckRanks == 6
\* number of distinct hole-card hands the brain may hold
NumHands == 3

\* ------------------------------------------------------- program constants

\* Blinds(10, 20)
small_blind == 10
big_blind == 20

None == "None"

AllNames == <<"A", "B", "C", "D", "E", "F">>
Players == {AllNames[i] : i \in 1..NumPlayers}

Max(a, b) == IF a > b THEN a ELSE b

\* ------------------------------------------------------------------ state

VARIABLES
    \* BettingRound
    bots,               \* ordered list of bots (empty before a round exists)
    bets,               \* dict bot name => current bet; absent = folded
    pot,
    sidepot,
    high_better,
    next_better_index,
    call,               \* the last call that went through on the round (op,
                        \* player, bet) and what it returned, the constructor's
                        \* arguments, and the exception the latest call raised
    default_bets,       \* the dict object that is the default of __init__'s bets
    aliased,            \* whether self.bets is that object
    rounds              \* the number of rounds built so far

VARIABLES
    \* BlindManager
    bm_bots,            \* self.bots: the bots still in the blind rotation
    sb_index,
    hands_this_level,
    blind,              \* self.blind: the amounts of the current blind level
    bm_call,            \* the last call made on the blind manager
    blinds_posted       \* what next_sb and next_bb returned for the latest
                        \* hands, one entry a hand, at most one a seat

VARIABLES
    \* two HandBuilders, scored against each other (ours and theirs)
    our_cards,          \* self.cards of the first
    their_cards,        \* self.cards of the second
    our_score,
    their_score

VARIABLES
    \* a Hand built from two cards in both argument orders
    hole_cards,         \* <<card1, card2>>
    both_hands,         \* <<Hand(card1, card2), Hand(card2, card1)>> once built
    \* a HandBuilder asked for the best hand of 6 or 7 cards
    builder_cards,      \* self.cards, a list
    best_hand           \* what find_hand returned, <<>> before the call

VARIABLES
    \* Brain
    has_preflop_equity, \* whether load_precalc_data set self.preflop_equity
    preflop_equity,     \* dict repr(hand) => equity (empty while unset)
    data_hand,          \* self.data.hand, None before the cards are dealt
    table_cards,        \* len(self.data.table_cards)
    bot_actions,        \* what the bot was told to do in the turn, in order
    turn                \* "waiting", "finished", or the exception raised

brain_vars == <<has_preflop_equity, preflop_equity, data_hand, table_cards,
                bot_actions, turn>>

score_vars == <<our_cards, their_cards, our_score, their_score>>

hand_vars == <<hole_cards, both_hands, builder_cards, best_hand>>

blind_vars == <<bm_bots, sb_index, hands_this_level, blind, bm_call,
                blinds_posted>>

round_vars == <<bots, bets, pot, sidepot, high_better, next_better_index, call,
                default_bets, aliased, rounds>>

\* --------------------------------------------------------- BettingRound

\* the round as a record, for the helpers that update several fields
Round(p, s, b, h, n) ==
    [pot |-> p, sidepot |-> s, bets |-> b, high_better |-> h, next_better_index |-> n]

\* dict assignment bets[player] = bet (adds the key when absent)
SetItem(d, k, v) == [x \in (DOMAIN d) \cup {k} |-> IF x = k THEN v ELSE d[x]]

\* del bets[player]
DelItem(d, k) == [x \in (DOMAIN d) \ {k} |-> d[x]]

\* set_better_index without the "not yet set" test
set_better_index_always(r, index) == [r EXCEPT !.next_better_index = index]

\* BettingRound.__set_better_index
set_better_index(r, index) ==
    IF r.next_better_index = -1
    THEN [r EXCEPT !.next_better_index = index]
    ELSE r

\* process_bet taking a call (bet = sidepot) for a raise
process_bet_ge(r, bet, player, is_blind) ==
    LET r1 == IF bet >= r.sidepot
              THEN [r EXCEPT !.sidepot = bet,
                             !.high_better = IF is_blind THEN @ ELSE player]
              ELSE r
    IN [r1 EXCEPT !.bets = SetItem(r1.bets, player, bet)]

\* BettingRound.__process_bet
process_bet(r, bet, player, is_blind) ==
    LET r1 == IF bet > r.sidepot
              THEN [r EXCEPT !.sidepot = bet,
                             !.high_better = IF is_blind THEN @ ELSE player]
              ELSE r
    IN [r1 EXCEPT !.bets = SetItem(r1.bets, player, bet)]

\* one iteration of the constructor's loop over enumerate(self.bots)
init_step(r, order, i) ==
    LET bot == order[i + 1]
    IN IF bot \in DOMAIN r.bets
       THEN process_bet([r EXCEPT !.pot = @ + r.bets[bot]], r.bets[bot], bot, TRUE)
       ELSE set_better_index([r EXCEPT !.bets = SetItem(@, bot, 0)], i)

RECURSIVE init_loop(_, _, _)
init_loop(r, order, i) ==
    IF i >= Len(order) THEN r ELSE init_loop(init_step(r, order, i), order, i + 1)

\* BettingRound.is_staked
is_staked(player) == player \in DOMAIN bets

\* BettingRound.can_bet
can_bet(player) == is_staked(player) /\ player # high_better

\* BettingRound.next_better
next_better ==
    IF can_bet(bots[next_better_index + 1])
    THEN bots[next_better_index + 1]
    ELSE None

\* the forced-bet mappings a round is built from: any bots, each posting
\* the small or the big blind
ForcedBets == UNION {[S -> {small_blind, big_blind}] : S \in SUBSET Players}

\* the seating order
Seating == [i \in 1..NumPlayers |-> AllNames[i]]

\* BettingRound.__init__(bots, bets, pot)
BettingRound__init__(order, forced, pot0) ==
    /\ LET r == set_better_index(
                    init_loop(Round(pot0, 0, forced, None, -1), order, 0), 0)
       IN /\ bots' = order
          /\ bets' = r.bets
          /\ pot' = r.pot
          /\ sidepot' = r.sidepot
          /\ high_better' = r.high_better
          /\ next_better_index' = r.next_better_index
    /\ call' = [op |-> "__init__", player |-> None, bet |-> 0, ret |-> None,
                forced |-> forced, pot0 |-> pot0, raised |-> None]

\* post_bet adding the rejected amount of a fold to the pot
post_bet_fold_pays(player, bet) ==
    /\ bots # <<>>
    /\ IF ~(player = next_better)
       THEN /\ call' = [call EXCEPT !.raised = "AssertionError"]
            /\ UNCHANGED <<bets, pot, sidepot, high_better, next_better_index>>
       ELSE LET current_bet == bets[player] + bet
                index == (next_better_index + 1) % Len(bots)
            IN IF current_bet >= sidepot
               THEN LET r == process_bet(
                                 Round(pot + bet, sidepot, bets, high_better, index),
                                 current_bet, player, FALSE)
                    IN /\ pot' = r.pot
                       /\ sidepot' = r.sidepot
                       /\ bets' = r.bets
                       /\ high_better' = r.high_better
                       /\ next_better_index' = r.next_better_index
                       /\ call' = [call EXCEPT !.op = "post_bet", !.player = player,
                                                !.bet = bet, !.ret = TRUE,
                                                !.raised = None]
               ELSE /\ bets' = DelItem(bets, player)
               /\ pot' = pot + bet
                    /\ next_better_index' = index
                    /\ call' = [call EXCEPT !.op = "post_bet", !.player = player,
                                             !.bet = bet, !.ret = FALSE,
                                             !.raised = None]
                    /\ UNCHANGED <<sidepot, high_better>>
    /\ UNCHANGED bots

\* post_bet advancing the index before the assertion
post_bet_index_first(player, bet) ==
    /\ bots # <<>>
    /\ IF ~(player = next_better)
       THEN /\ call' = [call EXCEPT !.raised = "AssertionError"]
            /\ next_better_index' = (next_better_index + 1) % Len(bots)
            /\ UNCHANGED <<bets, pot, sidepot, high_better>>
       ELSE LET current_bet == bets[player] + bet
                index == (next_better_index + 1) % Len(bots)
            IN IF current_bet >= sidepot
               THEN LET r == process_bet(
                                 Round(pot + bet, sidepot, bets, high_better, index),
                                 current_bet, player, FALSE)
                    IN /\ pot' = r.pot
                       /\ sidepot' = r.sidepot
                       /\ bets' = r.bets
                       /\ high_better' = r.high_better
                       /\ next_better_index' = r.next_better_index
                       /\ call' = [call EXCEPT !.op = "post_bet", !.player = player,
                                                !.bet = bet, !.ret = TRUE,
                                                !.raised = None]
               ELSE /\ bets' = DelItem(bets, player)
                    /\ next_better_index' = index
                    /\ call' = [call EXCEPT !.op = "post_bet", !.player = player,
                                             !.bet = bet, !.ret = FALSE,
                                             !.raised = None]
                    /\ UNCHANGED <<pot, sidepot, high_better>>
    /\ UNCHANGED bots

\* post_bet asserting only that the player is still staked
post_bet_any_staked(player, bet) ==
    /\ bots # <<>>
    /\ IF ~(is_staked(player))
       THEN /\ call' = [call EXCEPT !.raised = "AssertionError"]
            /\ UNCHANGED <<bets, pot, sidepot, high_better, next_better_index>>
       ELSE LET current_bet == bets[player] + bet
                index == (next_better_index + 1) % Len(bots)
            IN IF current_bet >= sidepot
               THEN LET r == process_bet(
                                 Round(pot + bet, sidepot, bets, high_better, index),
                                 current_bet, player, FALSE)
                    IN /\ pot' = r.pot
                       /\ sidepot' = r.sidepot
                       /\ bets' = r.bets
                       /\ high_better' = r.high_better
                       /\ next_better_index' = r.next_better_index
                       /\ call' = [call EXCEPT !.op = "post_bet", !.player = player,
                                                !.bet = bet, !.ret = TRUE,
                                                !.raised = None]
               ELSE /\ bets' = DelItem(bets, player)
                    /\ next_better_index' = index
                    /\ call' = [call EXCEPT !.op = "post_bet", !.player = player,
                                             !.bet = bet, !.ret = FALSE,
                                             !.raised = None]
                    /\ UNCHANGED <<pot, sidepot, high_better>>
    /\ UNCHANGED bots

\* post_bet not adding the bet to the pot
post_bet_no_pot(player, bet) ==
    /\ bots # <<>>
    /\ IF ~(player = next_better)
       THEN /\ call' = [call EXCEPT !.raised = "AssertionError"]
            /\ UNCHANGED <<bets, pot, sidepot, high_better, next_better_index>>
       ELSE LET current_bet == bets[player] + bet
                index == (next_better_index + 1) % Len(bots)
            IN IF current_bet >= sidepot
               THEN LET r == process_bet(
                                 Round(pot, sidepot, bets, high_better, index),
                                 current_bet, player, FALSE)
                    IN /\ pot' = r.pot
                       /\ sidepot' = r.sidepot
                       /\ bets' = r.bets
                       /\ high_better' = r.high_better
                       /\ next_better_index' = r.next_better_index
                       /\ call' = [call EXCEPT !.op = "post_bet", !.player = player,
                                                !.bet = bet, !.ret = TRUE,
                                                !.raised = None]
               ELSE /\ bets' = DelItem(bets, player)
                    /\ next_better_index' = index
                    /\ call' = [call EXCEPT !.op = "post_bet", !.player = player,
                                             !.bet = bet, !.ret = FALSE,
                                             !.raised = None]
                    /\ UNCHANGED <<pot, sidepot, high_better>>
    /\ UNCHANGED bots

\* BettingRound.post_bet(player, bet): the assertion fails for any player
\* other than next_better(), before anything is changed
post_bet(player, bet) ==
    /\ bots # <<>>
    /\ IF ~(player = next_better)
       THEN /\ call' = [call EXCEPT !.raised = "AssertionError"]
            /\ UNCHANGED <<bets, pot, sidepot, high_better, next_better_index>>
       ELSE LET current_bet == bets[player] + bet
                index == (next_better_index + 1) % Len(bots)
            IN IF current_bet >= sidepot
               THEN LET r == process_bet(
                                 Round(pot + bet, sidepot, bets, high_better, index),
                                 current_bet, player, FALSE)
                    IN /\ pot' = r.pot
                       /\ sidepot' = r.sidepot
                       /\ bets' = r.bets
                       /\ high_better' = r.high_better
                       /\ next_better_index' = r.next_better_index
                       /\ call' = [call EXCEPT !.op = "post_bet", !.player = player,
                                                !.bet = bet, !.ret = TRUE,
                                                !.raised = None]
               ELSE /\ bets' = DelItem(bets, player)
                    /\ next_better_index' = index
                    /\ call' = [call EXCEPT !.op = "post_bet", !.player = player,
                                             !.bet = bet, !.ret = FALSE,
                                             !.raised = None]
                    /\ UNCHANGED <<pot, sidepot, high_better>>
    /\ UNCHANGED bots

Amounts == {a * small_blind : a \in 0..MaxRaise}

RoundInit ==
    /\ bots = <<>>
    /\ bets = <<>>
    /\ pot = 0
    /\ sidepot = 0
    /\ high_better = None
    /\ next_better_index = -1
    /\ call = [op |-> "none", player |-> None, bet |-> 0, ret |-> None,
               forced |-> <<>>, pot0 |-> 0, raised |-> None]
    /\ default_bets = <<>>
    /\ aliased = FALSE
    /\ rounds = 0

\* the round of a street is built once, from an explicit forced-bet mapping
Construct ==
    /\ bots = <<>>
    /\ \E forced \in ForcedBets, pot0 \in {0, small_blind} :
           BettingRound__init__(Seating, forced, pot0)
    /\ aliased' = FALSE
    /\ rounds' = rounds + 1
    /\ UNCHANGED default_bets

\* the bots argument of a later round: the table, or the table after its
\* last bot has left
Seatings == {Seating, SubSeq(Seating, 1, NumPlayers - 1)}

\* BettingRound(bots, pot=pot0): self.bets is the default dict object of
\* "def __init__(self, bots, bets={}, pot=0)", made once when the function
\* is defined, so the loop reads and writes that object; the round of the
\* street before is dropped
ConstructDefault ==
    /\ rounds < MaxRounds
    /\ \E order \in Seatings, pot0 \in {0, small_blind} :
           BettingRound__init__(order, default_bets, pot0)
    /\ aliased' = TRUE
    /\ default_bets' = bets'
    /\ rounds' = rounds + 1

\* a post; what it writes to self.bets is written to the default dict when
\* self.bets is that object
Post ==
    /\ \E player \in Players, bet \in Amounts :
           /\ pot + bet <= MaxPot * small_blind
           /\ post_bet(player, bet)
    /\ default_bets' = IF aliased THEN bets' ELSE default_bets
    /\ UNCHANGED <<aliased, rounds>>

\* --------------------------------------------------------- BlindManager

IndexError == "IndexError"

\* the i-th element (from 0) of a Python list, or IndexError
GetItem(list, i) == IF i >= 0 /\ i < Len(list) THEN list[i + 1] ELSE IndexError

\* Blinds(small_blind, big_blind)
Blinds(sb, bb) == [small_blind |-> sb, big_blind |-> bb]

\* BlindManager.__wrap_index
wrap_index(i) == i % Len(bm_bots)

\* BlindManager.next_sb: the amount and the bot to post the small blind
next_sb == <<blind.small_blind, GetItem(bm_bots, sb_index)>>

\* next_bb taking the seat after the small blind without wrapping
next_bb_no_wrap ==
    IF Len(bm_bots) = 0
    THEN <<blind.big_blind, "ZeroDivisionError">>
    ELSE <<blind.big_blind, GetItem(bm_bots, sb_index + 1)>>

\* BlindManager.next_bb; with no bot left the modulo raises ZeroDivisionError
next_bb ==
    IF Len(bm_bots) = 0
    THEN <<blind.big_blind, "ZeroDivisionError">>
    ELSE <<blind.big_blind, GetItem(bm_bots, wrap_index(sb_index + 1))>>

\* BlindManager.__check_raise_blinds, as a function of the counter; what
\* follows the reset is a TODO comment, so self.blind is never assigned
check_raise_blinds(hands) == IF hands >= HandsPerLevel THEN 0 ELSE hands

\* BlindManager.finish_hand; with no bot left the modulo raises before
\* anything is assigned
finish_hand ==
    /\ Len(bm_bots) > 0
    /\ sb_index' = wrap_index(sb_index + 1)
    /\ hands_this_level' = check_raise_blinds(hands_this_level + 1)
    /\ bm_call' = [op |-> "finish_hand", name |-> None]
    /\ UNCHANGED <<bm_bots, blind>>

\* [b for b in self.bots if b is not None], with bots[i] = None for name
RECURSIVE Without(_, _)
Without(list, name) ==
    IF list = <<>> THEN <<>>
    ELSE IF Head(list) = name THEN Without(Tail(list), name)
    ELSE <<Head(list)>> \o Without(Tail(list), name)

\* eliminate_player leaving the index alone
eliminate_player_no_adjust(name) ==
    /\ sb_index' = sb_index
    /\ bm_bots' = Without(bm_bots, name)
    /\ bm_call' = [op |-> "eliminate_player", name |-> name]
    /\ UNCHANGED <<hands_this_level, blind>>

\* BlindManager.eliminate_player: names are distinct, so the loop finds
\* at most one seat i; the index is wrapped by the length before removal
eliminate_player(name) ==
    /\ IF \E i \in 0..(Len(bm_bots) - 1) : bm_bots[i + 1] = name /\ sb_index > i
       THEN sb_index' = wrap_index(sb_index - 1)
       ELSE sb_index' = sb_index
    /\ bm_bots' = Without(bm_bots, name)
    /\ bm_call' = [op |-> "eliminate_player", name |-> name]
    /\ UNCHANGED <<hands_this_level, blind>>

BotNames == {AllNames[i] : i \in 1..NumBots}

\* BlindManager.__init__(hands_per_level, bots)
BlindInit ==
    /\ bm_bots = [i \in 1..NumBots |-> AllNames[i]]
    /\ sb_index = 0
    /\ hands_this_level = 0
    /\ blind = Blinds(small_blind, big_blind)
    /\ bm_call = [op |-> "__init__", name |-> None]
    /\ blinds_posted = <<>>

Eliminate == \E name \in BotNames : eliminate_player(name)

\* BlindManager(hands_per_level, bots) for a table of two or more of the
\* bots, seated in the order of their names
RotationInit ==
    /\ bm_bots \in {Without([i \in 1..NumBots |-> IF AllNames[i] \in table
                                                  THEN AllNames[i] ELSE None],
                             None) :
                     table \in {t \in SUBSET BotNames : Cardinality(t) >= 2}}
    /\ sb_index = 0
    /\ hands_this_level = 0
    /\ blind = Blinds(small_blind, big_blind)
    /\ bm_call = [op |-> "__init__", name |-> None]
    /\ blinds_posted = <<>>

\* a hand as the game plays it: the blinds are asked for with next_sb and
\* next_bb, and finish_hand is called after the hand
play_hand ==
    /\ finish_hand
    /\ LET posted == Append(blinds_posted, [sb |-> next_sb[2], bb |-> next_bb[2]])
       IN blinds_posted' = IF Len(posted) > Len(bm_bots) THEN Tail(posted)
                           ELSE posted

\* ---------------------------------------------------- Card, HandBuilder

\* Constants
JACK == 11
QUEEN == 12
KING == 13
ACE == 14
CLUBS == 0
SPADES == 3

\* HandBuilder
NO_SCORE == -1
HIGH_CARD == 0
PAIR == 1
TWO_PAIR == 2
TRIPS == 3
STRAIGHT == 4
FLUSH == 5
FULL_HOUSE == 6
QUADS == 7
STRAIGHT_FLUSH == 8
HAND_LENGTH == 5

\* scores are floats with two decimals: the model counts hundredths
Hundredths == 100

\* Card(value, suit)
Card(value, suit) == [value |-> value, suit |-> suit]

\* Card.score_value: .01 * value below ten, 0.1 * value from ten on
score_value(card) ==
    IF card.value < 10 THEN card.value ELSE 10 * card.value

\* Card.__lt__, and the sort key (value, suit)
CardLess(a, b) ==
    a.value < b.value \/ (a.value = b.value /\ a.suit < b.suit)

\* HandBuilder.__sort_hand: high values first
RECURSIVE sort_hand(_)
sort_hand(cards) ==
    IF cards = {} THEN <<>>
    ELSE LET top == CHOOSE c \in cards : \A d \in cards \ {c} : CardLess(d, c)
         IN <<top>> \o sort_hand(cards \ {top})

\* HandBuilder.select_flush_suit: the suit that has 5+ cards; the None of
\* the source is NoSuit here
NoSuit == CLUBS - 1

select_flush_suit(cards) ==
    LET count(suit) == Cardinality({i \in 1..Len(cards) : cards[i].suit = suit})
    IN IF cards = <<>> THEN NoSuit
       ELSE IF \E suit \in CLUBS..SPADES : count(suit) >= HAND_LENGTH
       THEN CHOOSE suit \in CLUBS..SPADES : count(suit) >= HAND_LENGTH
       ELSE NoSuit

\* HandBuilder.__gap
gap(card1, card2) == card1.value - card2.value

\* HandBuilder.is_straight: every card is one below the card before it
is_straight(cards) ==
    \A i \in 2..Len(cards) : gap(cards[i - 1], cards[i]) = 1

\* HandBuilder.find_pairs_trips_quads: the values seen 2, 3 and 4 times
seen(cards, value) == Cardinality({i \in 1..Len(cards) : cards[i].value = value})

find_pairs_trips_quads(cards) ==
    [pairs |-> {v \in 2..ACE : seen(cards, v) = 2},
     trips |-> {v \in 2..ACE : seen(cards, v) = 3},
     quads |-> {v \in 2..ACE : seen(cards, v) = 4}]

\* HandBuilder.__score_flush
score_flush(cards) == 0

\* HandBuilder.__score_high_card
score_high_card(cards) == score_value(cards[1])

\* HandBuilder.__score_pairs
score_pairs(cards, pairs) == 0

\* HandBuilder.__score_full_house
score_full_house(cards, trips, pairs) == 0

\* the part of __score_hand for flushes and straights
flush_straight_score(cards) ==
    LET s1 == IF select_flush_suit(cards) # NoSuit
              THEN FLUSH * Hundredths + score_flush(cards)
              ELSE NO_SCORE * Hundredths
    IN IF is_straight(cards)
       THEN (IF s1 = FLUSH * Hundredths THEN STRAIGHT_FLUSH * Hundredths
                                        ELSE STRAIGHT * Hundredths)
            + score_high_card(cards)
       ELSE s1

\* pairs_score without the test for quads
pairs_score_no_quads(cards) ==
    LET f == find_pairs_trips_quads(cards)
        s0 == HIGH_CARD * Hundredths + score_high_card(cards)
        s1 == IF f.pairs # {} THEN PAIR * Hundredths + score_pairs(cards, f.pairs) ELSE s0
        s2 == IF Cardinality(f.pairs) > 1
              THEN TWO_PAIR * Hundredths + score_pairs(cards, f.pairs) ELSE s1
        s3 == IF f.trips # {} THEN TRIPS * Hundredths + score_pairs(cards, f.trips) ELSE s2
    IN IF f.trips # {} /\ f.pairs # {}
       THEN FULL_HOUSE * Hundredths + score_full_house(cards, f.trips, f.pairs)
       ELSE s3

\* the part of __score_hand for pairs, trips and quads: each test that
\* holds overwrites the score of the tests before it
pairs_score(cards) ==
    LET f == find_pairs_trips_quads(cards)
        s0 == HIGH_CARD * Hundredths + score_high_card(cards)
        s1 == IF f.pairs # {} THEN PAIR * Hundredths + score_pairs(cards, f.pairs) ELSE s0
        s2 == IF Cardinality(f.pairs) > 1
              THEN TWO_PAIR * Hundredths + score_pairs(cards, f.pairs) ELSE s1
        s3 == IF f.trips # {} THEN TRIPS * Hundredths + score_pairs(cards, f.trips) ELSE s2
        s4 == IF f.trips # {} /\ f.pairs # {}
              THEN FULL_HOUSE * Hundredths + score_full_house(cards, f.trips, f.pairs)
              ELSE s3
    IN IF f.quads # {} THEN QUADS * Hundredths + score_pairs(cards, f.pairs) ELSE s4

\* HandBuilder.__score_hand, in hundredths
score_hand_sorted(cards) ==
    IF flush_straight_score(cards) > NO_SCORE * Hundredths
    THEN flush_straight_score(cards)
    ELSE pairs_score(cards)

\* HandBuilder.score_hand: invalid hands are dropped, the rest is sorted
\* and scored
score_hand(cards) ==
    IF cards = {} \/ Cardinality(cards) # HAND_LENGTH
    THEN NO_SCORE * Hundredths
    ELSE score_hand_sorted(sort_hand(cards))

\* the cards dealt from: the DeckRanks highest ranks in spades, the ace in
\* all four suits and the king in two
Copies(value) == IF value = ACE THEN 4 ELSE IF value = KING THEN 2 ELSE 1

Deck ==
    {Card(v, s) : v \in (ACE - DeckRanks + 1)..ACE, s \in CLUBS..SPADES}
        \cap {c \in [value : 2..ACE, suit : CLUBS..SPADES] :
                 c.suit > SPADES - Copies(c.value)}

Hands == {h \in SUBSET Deck : Cardinality(h) = HAND_LENGTH}

\* two hands are dealt, none scored yet (Hand._score starts at NO_SCORE)
ScoreInit ==
    /\ our_cards \in Hands
    /\ their_cards \in Hands
    /\ our_score = NO_SCORE * Hundredths
    /\ their_score = NO_SCORE * Hundredths

\* no hand is being scored
ScoreIdle ==
    /\ our_cards = {}
    /\ their_cards = {}
    /\ our_score = NO_SCORE * Hundredths
    /\ their_score = NO_SCORE * Hundredths

\* both hands are scored, as PreflopCalculator.try_hand does
score_hands ==
    /\ our_score = NO_SCORE * Hundredths
    /\ our_score' = score_hand(our_cards)
    /\ their_score' = score_hand(their_cards)
    /\ UNCHANGED <<our_cards, their_cards>>

\* self.cards.sort(key=sort_key, reverse=True) on a list: a stable sort,
\* high (value, suit) first
RECURSIVE insert_card(_, _)
insert_card(card, sorted) ==
    IF sorted = <<>> THEN <<card>>
    ELSE IF ~CardLess(card, Head(sorted)) THEN <<card>> \o sorted
    ELSE <<Head(sorted)>> \o insert_card(card, Tail(sorted))

RECURSIVE sort_list(_)
sort_list(list) ==
    IF list = <<>> THEN <<>>
    ELSE insert_card(Head(list), sort_list(Tail(list)))

\* itertools.combinations(list, r): the r-tuples of list, in the order of
\* their positions
RECURSIVE combinations(_, _)
combinations(list, r) ==
    IF r = 0 THEN << <<>> >>
    ELSE IF Len(list) < r THEN <<>>
    ELSE LET rest == combinations(Tail(list), r - 1)
         IN [i \in 1..Len(rest) |-> <<Head(list)>> \o rest[i]]
                \o combinations(Tail(list), r)

\* the loop of find_hand taking every hand that is at least as good
RECURSIVE best_of_last(_, _, _)
best_of_last(tuples, best, best_hand_score) ==
    IF tuples = <<>> THEN best
    ELSE LET score == score_hand_sorted(Head(tuples))
         IN IF score >= best_hand_score
            THEN best_of_last(Tail(tuples), Head(tuples), score)
            ELSE best_of_last(Tail(tuples), best, best_hand_score)

\* the loop of find_hand: a hand replaces the best one only when its score
\* is strictly higher
RECURSIVE best_of(_, _, _)
best_of(tuples, best, best_hand_score) ==
    IF tuples = <<>> THEN best
    ELSE LET score == score_hand_sorted(Head(tuples))
         IN IF score > best_hand_score
            THEN best_of(Tail(tuples), Head(tuples), score)
            ELSE best_of(Tail(tuples), best, best_hand_score)

\* HandBuilder.find_hand; the None of the source is <<>> here
find_hand(list) ==
    IF list = <<>> \/ Len(list) < HAND_LENGTH THEN <<>>
    ELSE IF Len(list) = HAND_LENGTH THEN list
    ELSE best_of(combinations(sort_list(list), HAND_LENGTH), <<>>,
                 NO_SCORE * Hundredths)

\* the lists a set of cards is handed over as: high first, low first, and
\* cut in the middle
Orders(set) ==
    LET d == sort_hand(set)
        n == Len(d)
    IN {d, [i \in 1..n |-> d[n + 1 - i]],
        SubSeq(d, n \div 2 + 1, n) \o SubSeq(d, 1, n \div 2)}

\* HandBuilder(cards) with the two hole cards and four or five table cards
BuilderInit ==
    /\ hole_cards = <<>>
    /\ both_hands = <<>>
    /\ builder_cards \in UNION {Orders(set) : set \in
           {h \in SUBSET Deck : Cardinality(h) \in
                                  {HAND_LENGTH + 1, HAND_LENGTH + 2}}}
    /\ best_hand = <<>>

\* one call of find_hand, which sorts self.cards in place
find_best_hand ==
    /\ best_hand = <<>>
    /\ best_hand' = find_hand(builder_cards)
    /\ builder_cards' = IF Len(builder_cards) > HAND_LENGTH
                        THEN sort_list(builder_cards) ELSE builder_cards
    /\ UNCHANGED <<hole_cards, both_hands>>

\* Hand.__init__
Hand__init__(card1, card2) ==
    IF card1.value > card2.value
    THEN [high |-> card1, low |-> card2, _score |-> NO_SCORE]
    ELSE [high |-> card2, low |-> card1, _score |-> NO_SCORE]

\* no Hand is being built, no best hand looked for
HandIdle ==
    /\ hole_cards = <<>>
    /\ both_hands = <<>>
    /\ builder_cards = <<>>
    /\ best_hand = <<>>

\* two distinct cards are dealt, in either order
HoleInit ==
    /\ hole_cards \in {<<a, b>> : a \in Deck, b \in Deck} \ {<<a, a>> : a \in Deck}
    /\ both_hands = <<>>
    /\ builder_cards = <<>>
    /\ best_hand = <<>>

\* Hand(card1, card2) and Hand(card2, card1)
make_hands ==
    /\ both_hands = <<>>
    /\ both_hands' = <<Hand__init__(hole_cards[1], hole_cards[2]),
                  Hand__init__(hole_cards[2], hole_cards[1])>>
    /\ UNCHANGED <<hole_cards, builder_cards, best_hand>>

\* ------------------------------------------------------------------ Brain

\* equities are floats: the model counts hundredths
low_equity == 20
high_equity == 50

\* pick_action folds below 0.3
fold_below == 30

HandNames == <<"A-Spades A-Hearts", "7-Clubs 2-Hearts", "K-Spades Q-Spades",
               "J-Hearts 10-Hearts", "9-Clubs 9-Diamonds">>

\* self.data.hand: the hole cards, named by what they are
HoleHands == {HandNames[i] : i \in 1..NumHands}

\* repr(hand), the key the precomputed table is read with
repr(hand) == <<"Hand", hand>>

HandKeys == {repr(hand) : hand \in HoleHands}

\* what the pickle file may hold: any hands, each with an equity
EquityTables == UNION {[K -> {low_equity, high_equity}] : K \in SUBSET HandKeys}

\* HandSimulator.simulate: an estimate of the equity
SimulatedEquities == {low_equity, high_equity}

\* Brain.__init__ with load_precalc_data: the table is read from the file,
\* or the IOError is logged and self.preflop_equity is never assigned
\* (preflop_equity is then the empty dict here, and never read); the game
\* data hold the hand and table cards of the turn to come
BrainInit ==
    /\ has_preflop_equity \in BOOLEAN
    /\ preflop_equity \in (IF has_preflop_equity THEN EquityTables ELSE {<<>>})
    /\ data_hand \in HoleHands \cup {None}
    /\ table_cards \in {0, 3, 4, 5}
    /\ bot_actions = <<>>
    /\ turn = "waiting"

\* no brain is running
BrainIdle ==
    /\ has_preflop_equity = FALSE
    /\ preflop_equity = <<>>
    /\ data_hand = None
    /\ table_cards = 0
    /\ bot_actions = <<>>
    /\ turn = "waiting"

\* Brain.pick_action
pick_action(equity) == IF equity < fold_below THEN "fold" ELSE "call"

\* Brain.__do_turn with the equity the simulator returns, when it is run
do_turn(simulated) ==
    /\ turn = "waiting"
    /\ IF data_hand = None
       THEN bot_actions' = <<"fold">> /\ turn' = "finished"
       ELSE IF table_cards = 0
       THEN IF ~has_preflop_equity
            THEN bot_actions' = bot_actions /\ turn' = "AttributeError"
            ELSE IF repr(data_hand) \notin DOMAIN preflop_equity
            THEN bot_actions' = bot_actions /\ turn' = "KeyError"
            ELSE /\ bot_actions' = <<pick_action(preflop_equity[repr(data_hand)])>>
                 /\ turn' = "finished"
       ELSE bot_actions' = <<pick_action(simulated)>> /\ turn' = "finished"
    /\ UNCHANGED <<has_preflop_equity, preflop_equity, data_hand, table_cards>>

\* ---------------------------------------------------------- specifications

vars == <<round_vars, blind_vars, score_vars, hand_vars, brain_vars>>

\* one betting round
InitRound == RoundInit /\ BlindInit /\ ScoreIdle /\ HandIdle /\ BrainIdle

ConstructRound == Construct /\ UNCHANGED <<blind_vars, score_vars, hand_vars, brain_vars>>

PostBet == Post /\ UNCHANGED <<blind_vars, score_vars, hand_vars, brain_vars>>

NextRound == ConstructRound \/ PostBet

SpecRound == InitRound /\ [][NextRound]_vars

\* the rounds of successive streets, each built without a forced-bet mapping
InitRounds == RoundInit /\ BlindInit /\ ScoreIdle /\ HandIdle /\ BrainIdle

ConstructDefaultRound ==
    ConstructDefault /\ UNCHANGED <<blind_vars, score_vars, hand_vars, brain_vars>>

PostBetInRounds == Post /\ UNCHANGED <<blind_vars, score_vars, hand_vars, brain_vars>>

NextRounds == ConstructDefaultRound \/ PostBetInRounds

SpecRounds == InitRounds /\ [][NextRounds]_vars

\* the blind rotation over a session
InitBlinds == RoundInit /\ BlindInit /\ ScoreIdle /\ HandIdle /\ BrainIdle

FinishHand ==
    /\ finish_hand
    /\ UNCHANGED <<blinds_posted, round_vars, score_vars, hand_vars, brain_vars>>

EliminatePlayer ==
    /\ Eliminate
    /\ UNCHANGED <<blinds_posted, round_vars, score_vars, hand_vars, brain_vars>>

NextBlinds == FinishHand \/ EliminatePlayer

SpecBlinds == InitBlinds /\ [][NextBlinds]_vars

\* the blind rotation of a table nobody is eliminated from
InitRotation == RoundInit /\ RotationInit /\ ScoreIdle /\ HandIdle /\ BrainIdle

PlayHand ==
    play_hand /\ UNCHANGED <<round_vars, score_vars, hand_vars, brain_vars>>

NextRotation == PlayHand

SpecRotation == InitRotation /\ [][NextRotation]_vars

\* scoring two hands against each other
InitScore == RoundInit /\ BlindInit /\ ScoreInit /\ HandIdle /\ BrainIdle

ScoreHands == score_hands /\ UNCHANGED <<round_vars, blind_vars, hand_vars, brain_vars>>

NextScore == ScoreHands

SpecScore == InitScore /\ [][NextScore]_vars

\* one turn of the brain
\* a hand built from two cards, both ways round
InitHand == RoundInit /\ BlindInit /\ ScoreIdle /\ HoleInit /\ BrainIdle

MakeHands ==
    make_hands /\ UNCHANGED <<round_vars, blind_vars, score_vars, brain_vars>>

NextHand == MakeHands

SpecHand == InitHand /\ [][NextHand]_vars

\* the best hand of six or seven cards
InitFindHand == RoundInit /\ BlindInit /\ ScoreIdle /\ BuilderInit /\ BrainIdle

FindHand ==
    find_best_hand /\ UNCHANGED <<round_vars, blind_vars, score_vars, brain_vars>>

NextFindHand == FindHand

SpecFindHand == InitFindHand /\ [][NextFindHand]_vars

InitBrain == RoundInit /\ BlindInit /\ ScoreIdle /\ HandIdle /\ BrainInit

DoTurn ==
    /\ \E simulated \in SimulatedEquities : do_turn(simulated)
    /\ UNCHANGED <<round_vars, blind_vars, score_vars, hand_vars>>

NextBrain == DoTurn

SpecBrain == InitBrain /\ [][NextBrain]_vars

\* ------------------------------------------------------------ properties

Range(f) == {f[x] : x \in DOMAIN f}

\* the round was built with the small blind on the first bot and the big
\* blind on the second, and an empty pot
BlindsSeeded ==
    /\ bots # <<>>
    /\ call.forced = (bots[1] :> small_blind @@ bots[2] :> big_blind)
    /\ call.pot0 = 0

\* nobody folded or raised, everybody stands at the big blind, and the
\* last post was the big blind's check
CalledAround ==
    /\ BlindsSeeded
    /\ DOMAIN bets = Players
    /\ \A p \in Players : bets[p] = big_blind
    /\ sidepot = big_blind
    /\ call.op = "post_bet" /\ call.player = bots[2] /\ call.bet = 0

\* C1: after blinds on the first two bots, a call by every other bot, the
\* small blind's completion and the big blind's check, every post was
\* accepted, nobody is next to act, and the pot is n big blinds
C1_CallAroundClosesRound ==
    CalledAround =>
        /\ call.ret = TRUE
        /\ next_better = None
        /\ pot = NumPlayers * big_blind

\* C2: a round that reports no next bettor has no active bot below the
\* threshold
C2_ClosedMeansAllMatched ==
    (bots # <<>> /\ next_better = None) =>
        \A p \in DOMAIN bets : bets[p] = sidepot

\* a step that is the post call.player / call.bet of the next state
PostStep == bots # <<>> /\ call'.op = "post_bet" /\ call'.raised = None

\* what an accepted post of amount a by bot p does, the high bettor aside
AcceptedEffect(p, a) ==
    /\ call'.ret = TRUE
    /\ pot' = pot + a
    /\ sidepot' = Max(sidepot, bets[p] + a)
    /\ bets' = [bets EXCEPT ![p] = bets[p] + a]

\* bot p is the high bettor of the next state: can_bet is false for p and
\* true for every other active bot
HighBetterNext(p) ==
    /\ high_better' = p
    /\ ~(p \in DOMAIN bets' /\ p # high_better')
    /\ \A q \in DOMAIN bets' \ {p} : q \in DOMAIN bets' /\ q # high_better'

\* C7 (as claimed): an accepted post always makes the poster the high bettor
C7_AcceptedPostSetsHighBetter ==
    [][(PostStep /\ bets[call'.player] + call'.bet >= sidepot) =>
          /\ AcceptedEffect(call'.player, call'.bet)
          /\ HighBetterNext(call'.player)]_vars

\* C7 (amended): a post whose total meets the threshold is accepted, adds
\* its amount to the pot, lifts the threshold to the total when higher and
\* sets the poster's bet; the poster becomes the high bettor exactly when
\* the total is strictly above the threshold, else the high bettor stays
C7_AcceptedPost ==
    [][(PostStep /\ bets[call'.player] + call'.bet >= sidepot) =>
          /\ AcceptedEffect(call'.player, call'.bet)
          /\ IF bets[call'.player] + call'.bet > sidepot
             THEN HighBetterNext(call'.player)
             ELSE high_better' = high_better]_vars

\* a raise was accepted: the poster is the high bettor, others can bet
C7_Witness ==
    /\ call.op = "post_bet" /\ call.ret = TRUE /\ call.bet > 0
    /\ high_better = call.player
    /\ ~can_bet(call.player)
    /\ \E q \in DOMAIN bets : can_bet(q) /\ bets[q] < sidepot

\* C8: a post whose total is below the threshold is rejected: the poster
\* leaves the bet mapping, the call returns False, and the pot, the
\* threshold, the high bettor and the other bets stay; the index advances
C8_RejectedPost ==
    [][(PostStep /\ bets[call'.player] + call'.bet < sidepot) =>
          /\ call'.ret = FALSE
          /\ bets' = DelItem(bets, call'.player)
          /\ call'.player \notin DOMAIN bets'
          /\ pot' = pot /\ sidepot' = sidepot /\ high_better' = high_better
          /\ bots' = bots
          /\ next_better_index' = (next_better_index + 1) % Len(bots)]_vars

\* an under-call of a positive amount was rejected
C8_Witness ==
    /\ call.op = "post_bet" /\ call.ret = FALSE /\ call.bet > 0
    /\ call.player \notin DOMAIN bets

RECURSIVE SumBets(_)
SumBets(f) ==
    IF DOMAIN f = {} THEN 0
    ELSE LET k == CHOOSE x \in DOMAIN f : TRUE
         IN f[k] + SumBets([x \in DOMAIN f \ {k} |-> f[x]])

MaxBet(f) ==
    IF DOMAIN f = {} THEN 0
    ELSE CHOOSE m \in Range(f) : \A x \in Range(f) : x <= m

\* the first seat (from 0) without a forced bet, or 0 when all have one
FirstToAct(order, forced) ==
    IF \A i \in 1..Len(order) : order[i] \in DOMAIN forced THEN 0
    ELSE (CHOOSE i \in 1..Len(order) :
              /\ order[i] \notin DOMAIN forced
              /\ \A j \in 1..(i - 1) : order[j] \in DOMAIN forced) - 1

\* C9: right after construction the pot is the initial pot plus the forced
\* bets, the threshold is the largest forced bet, there is no high bettor
\* (every blind poster can bet), unforced bots are active at 0, and the
\* first to act is the first bot without a forced bet, else the first bot
C9_Construction ==
    call.op = "__init__" =>
        /\ pot = call.pot0 + SumBets(call.forced)
        /\ sidepot = MaxBet(call.forced)
        /\ high_better = None
        /\ \A p \in DOMAIN call.forced : can_bet(p)
        /\ \A p \in Range(bots) \ DOMAIN call.forced : is_staked(p) /\ bets[p] = 0
        /\ next_better_index = FirstToAct(bots, call.forced)
        /\ next_better = bots[FirstToAct(bots, call.forced) + 1]

\* a round built on the two blinds: the third bot acts first
C9_Witness ==
    /\ call.op = "__init__" /\ BlindsSeeded
    /\ pot = small_blind + big_blind /\ sidepot = big_blind
    /\ next_better = bots[3]

\* C5: with a bot left the small-blind index is a valid index, so the
\* small and the big blind are bots of the rotation
C5_IndexInRange ==
    Len(bm_bots) >= 1 =>
        /\ 0 <= sb_index /\ sb_index < Len(bm_bots)
        /\ next_sb[2] \in Range(bm_bots)
        /\ next_bb[2] \in Range(bm_bots)

\* the seat (from 0) of a bot in the rotation
Seat(name) == (CHOOSE i \in 1..Len(bm_bots) : bm_bots[i] = name) - 1

\* C10: eliminating a bot seated before the small-blind index lowers the
\* index by one; eliminating any bot but the small blind leaves the bot
\* next_sb returns unchanged; the eliminated bot is out of the rotation
C10_EliminateKeepsSmallBlind ==
    [][(bm_call'.op = "eliminate_player" /\ bm_call'.name \in Range(bm_bots)) =>
          /\ (Seat(bm_call'.name) < sb_index => sb_index' = sb_index - 1)
          /\ (next_sb[2] # bm_call'.name => next_sb' = next_sb)
          /\ bm_call'.name \notin Range(bm_bots')
          /\ Len(bm_bots') = Len(bm_bots) - 1]_vars

\* the first bot was eliminated with the index on the fourth seat: the
\* index went from 3 to 2 and still designates the same bot
C10_Witness ==
    /\ bm_call = [op |-> "eliminate_player", name |-> AllNames[1]]
    /\ Len(bm_bots) = NumBots - 1
    /\ sb_index = 2
    /\ next_sb[2] = AllNames[4]

\* the poker category of a 5-card hand, from its ranks and suits (a
\* straight is five ranks in a row, the ace high)
Ranks(hand) == {c.value : c \in hand}

RankCount(hand, v) == Cardinality({c \in hand : c.value = v})

TopRank(ranks) == CHOOSE v \in ranks : \A w \in ranks : w <= v

LowRank(ranks) == CHOOSE v \in ranks : \A w \in ranks : w >= v

IsFlush(hand) == \E s \in CLUBS..SPADES : \A c \in hand : c.suit = s

IsStraight(hand) ==
    /\ Cardinality(Ranks(hand)) = HAND_LENGTH
    /\ TopRank(Ranks(hand)) - LowRank(Ranks(hand)) = HAND_LENGTH - 1

RanksSeen(hand, n) == {v \in Ranks(hand) : RankCount(hand, v) = n}

Category(hand) ==
    CASE IsFlush(hand) /\ IsStraight(hand) -> STRAIGHT_FLUSH
      [] RanksSeen(hand, 4) # {} -> QUADS
      [] RanksSeen(hand, 3) # {} /\ RanksSeen(hand, 2) # {} -> FULL_HOUSE
      [] IsFlush(hand) -> FLUSH
      [] IsStraight(hand) -> STRAIGHT
      [] RanksSeen(hand, 3) # {} -> TRIPS
      [] Cardinality(RanksSeen(hand, 2)) = 2 -> TWO_PAIR
      [] Cardinality(RanksSeen(hand, 2)) = 1 -> PAIR
      [] OTHER -> HIGH_CARD

\* the rank that decides within a category: the quad, trips or (higher)
\* pair rank, else the top card
DecidingRank(hand) ==
    CASE RanksSeen(hand, 4) # {} -> TopRank(RanksSeen(hand, 4))
      [] RanksSeen(hand, 3) # {} -> TopRank(RanksSeen(hand, 3))
      [] RanksSeen(hand, 2) # {} -> TopRank(RanksSeen(hand, 2))
      [] OTHER -> TopRank(Ranks(hand))

Scored == our_score # NO_SCORE * Hundredths

\* C3: of two scored hands, the one of the strictly higher category has
\* the strictly higher score
C3_HigherCategoryScoresHigher ==
    (Scored /\ Category(our_cards) > Category(their_cards)) =>
        our_score > their_score

\* C4: of two scored hands of one category, the one with the strictly
\* higher deciding rank has the strictly higher score, and hands of equal
\* score have the same category and deciding rank
C4_HigherRankScoresHigher ==
    Scored =>
        /\ (/\ Category(our_cards) = Category(their_cards)
            /\ DecidingRank(our_cards) > DecidingRank(their_cards))
               => our_score > their_score
        /\ our_score = their_score =>
               /\ Category(our_cards) = Category(their_cards)
               /\ DecidingRank(our_cards) = DecidingRank(their_cards)

\* C6: a preflop turn (hole cards, no table cards) whose hand is not in
\* the equity table, or whose table was never loaded, does not fail and
\* ends with exactly one action, fold or call
C6_CacheMissFallsBack ==
    (/\ turn # "waiting"
     /\ data_hand # None
     /\ table_cards = 0
     /\ (~has_preflop_equity \/ repr(data_hand) \notin DOMAIN preflop_equity)) =>
        /\ turn = "finished"
        /\ Len(bot_actions) = 1
        /\ bot_actions[1] \in {"fold", "call"}

\* the fields of the round that a call on it may change
round_state == <<bots, bets, pot, sidepot, high_better, next_better_index>>

\* C11: the street bets of the active bots add up to at most the pot
C11_BetsWithinPot ==
    (bots # <<>> /\ DOMAIN call.forced \subseteq Range(bots)) =>
        SumBets(bets) <= pot

\* a bot folded and left chips in the pot
C11_Witness ==
    /\ bots # <<>> /\ call.op = "post_bet"
    /\ DOMAIN bets # Players
    /\ SumBets(bets) > 0 /\ SumBets(bets) < pot

\* C12: a post for a bot other than next_better() raises the assertion
\* and changes nothing of the round; only a post by next_better() goes
\* through
C12_OutOfTurnPostFails ==
    [][/\ call'.raised = "AssertionError" => UNCHANGED round_state
       /\ PostStep => call'.player = next_better]_vars

\* a post was refused while a bot had folded, another was the high bettor
\* and a third was next to act
C12_Witness ==
    /\ bots # <<>> /\ call.raised = "AssertionError"
    /\ next_better # None /\ high_better # None
    /\ DOMAIN bets # Players

\* C16: once nobody is next to act, every post is refused, the round does
\* not change and nobody is next to act afterwards
C16_ClosedIsTerminal ==
    [][(bots # <<>> /\ next_better = None) =>
          /\ UNCHANGED round_state
          /\ call'.raised = "AssertionError"
          /\ call'.op = call.op /\ call'.ret = call.ret
          /\ ~(bots'[next_better_index' + 1] \in DOMAIN bets'
               /\ bots'[next_better_index' + 1] # high_better')]_vars

\* a post was refused in a closed round
C16_Witness ==
    /\ bots # <<>> /\ next_better = None
    /\ call.raised = "AssertionError"

\* C18: when nobody has raised or folded and the action is back at the
\* first bot to act, so that every bot has acted, nobody is next to act
C18_NoRaiseRoundCloses ==
    (/\ bots # <<>> /\ call.op = "post_bet"
     /\ high_better = None
     /\ DOMAIN bets = Players
     /\ next_better_index = FirstToAct(bots, call.forced)) =>
        next_better = None

\* C19: a round built without a forced-bet mapping starts with every bot
\* active at 0, threshold 0, no high bettor and the pot it was given
C19_DefaultRoundStartsClean ==
    (call.op = "__init__" /\ aliased) =>
        /\ DOMAIN bets = Range(bots)
        /\ \A p \in Range(bots) : bets[p] = 0
        /\ sidepot = 0
        /\ high_better = None
        /\ pot = call.pot0

\* C20: some bot is active, no active bot is above the threshold, and an
\* active bot stands at the threshold
C20_ThresholdIsMaxActiveBet ==
    bots # <<>> =>
        /\ DOMAIN bets # {}
        /\ \A p \in DOMAIN bets : bets[p] <= sidepot
        /\ \E p \in DOMAIN bets : bets[p] = sidepot

\* C13: a scored four of a kind is strictly above a scored full house, and
\* a scored full house strictly above a scored one-pair hand
C13_QuadsFullHousePair ==
    Scored =>
        /\ (Category(our_cards) = QUADS /\ Category(their_cards) = FULL_HOUSE)
               => our_score > their_score
        /\ (Category(our_cards) = FULL_HOUSE /\ Category(their_cards) = PAIR)
               => our_score > their_score

\* a four of a kind has been scored against a full house
C13_Witness ==
    /\ Scored
    /\ Category(our_cards) = QUADS
    /\ Category(their_cards) = FULL_HOUSE

\* C15: a finish_hand call moves the small-blind index one seat forward,
\* wrapping to 0 after the last seat, and counts the hand; when the count
\* reaches hands_per_level it goes back to 0 and the blinds go up, and
\* otherwise the blinds stay
C15_AdvanceHand ==
    [][bm_call'.op = "finish_hand" =>
          /\ sb_index' = IF sb_index + 1 = Len(bm_bots) THEN 0 ELSE sb_index + 1
          /\ hands_this_level' < HandsPerLevel
          /\ IF hands_this_level + 1 = HandsPerLevel
             THEN /\ hands_this_level' = 0
                  /\ blind'.small_blind > blind.small_blind
                  /\ blind'.big_blind > blind.big_blind
             ELSE /\ hands_this_level' = hands_this_level + 1
                  /\ blind' = blind]_vars

\* C14: the hand built from (a, b) and the hand built from (b, a) have the
\* same high card and the same low card
C14_HandOrderIrrelevant ==
    both_hands # <<>> =>
        /\ both_hands[1].high = both_hands[2].high
        /\ both_hands[1].low = both_hands[2].low

\* the sets of positions of a hand among n sorted cards, and the set that
\* comes first in the order the combinations are generated in
Positions(n) == {I \in SUBSET (1..n) : Cardinality(I) = HAND_LENGTH}

Earlier(I, J) ==
    /\ I # J
    /\ LET differ == (I \ J) \cup (J \ I)
       IN (CHOOSE x \in differ : \A y \in differ : x <= y) \in I

\* C17: the hand found among 6 or 7 cards is a 5-card subset of them that
\* no 5-card subset outscores, and of the subsets with that score it is
\* the first in combination order over the cards sorted high first,
\* whatever the order the cards came in
C17_FindHandFirstBest ==
    best_hand # <<>> =>
        LET given == Range(builder_cards)
            d == sort_hand(given)
            found == Range(best_hand)
        IN /\ Len(best_hand) = HAND_LENGTH
           /\ Cardinality(found) = HAND_LENGTH
           /\ found \subseteq given
           /\ \A h \in SUBSET given :
                  Cardinality(h) = HAND_LENGTH => score_hand(h) <= score_hand(found)
           /\ \E I \in Positions(Len(d)) :
                  /\ found = {d[i] : i \in I}
                  /\ best_hand = sort_hand(found)
                  /\ \A J \in Positions(Len(d)) :
                         score_hand({d[j] : j \in J}) = score_hand(found)
                             => ~Earlier(J, I)

\* the best hand of 7 cards was found, and another hand ties with it
C17_Witness ==
    /\ best_hand # <<>>
    /\ Len(builder_cards) = HAND_LENGTH + 2
    /\ \E h \in SUBSET Range(builder_cards) :
           /\ Cardinality(h) = HAND_LENGTH
           /\ h # Range(best_hand)
           /\ score_hand(h) = score_hand(Range(best_hand))

\* C21: with two or more bots and no elimination, the small and the big
\* blind of a hand are two different bots, the big blind of a hand is the
\* small blind of the next, and in as many hands in a row as there are
\* bots every bot is small blind once and big blind once
C21_FairRotation ==
    LET n == Len(bm_bots)
        m == Len(blinds_posted)
    IN /\ next_sb[2] \in Range(bm_bots)
       /\ next_bb[2] \in Range(bm_bots)
       /\ next_sb[2] # next_bb[2]
       /\ \A i \in 1..m : blinds_posted[i].sb # blinds_posted[i].bb
       /\ \A i \in 1..(m - 1) : blinds_posted[i].bb = blinds_posted[i + 1].sb
       /\ m > 0 => blinds_posted[m].bb = next_sb[2]
       /\ m = n =>
              \A bot \in Range(bm_bots) :
                  /\ Cardinality({i \in 1..m : blinds_posted[i].sb = bot}) = 1
                  /\ Cardinality({i \in 1..m : blinds_posted[i].bb = bot}) = 1

\* a full table has played more hands than it has seats: the latest hands,
\* one a seat, start in the middle of the table
C21_Witness ==
    /\ Len(bm_bots) = NumBots
    /\ Len(blinds_posted) = NumBots
    /\ blinds_posted[1].sb = bm_bots[NumBots - 1]
    /\ bm_call.op = "finish_hand"

====
